---- MODULE Spec2Model ----
(***************************************************************************)
(* A model of boggle.py: the BoggleBoard grid (construction, validation,   *)
(* neighbour geometry, letter occurrences) and the BoggleGame layer        *)
(* (construction, play_word, the check_word_on_board path search with its  *)
(* recursive_string_search, and the scored_words map).                     *)
(*                                                                         *)
(* Strings are sequences of one-character strings.  Board positions are    *)
(* the 0-indexed pairs <<i_row, j_col>> of the source; the sequences that  *)
(* hold the rows are 1-indexed, so cell (i, j) is board[i+1][j+1].         *)
(***************************************************************************)
EXTENDS Integers, Sequences, FiniteSets, TLC

VARIABLES
    kw_size,          \* the size keyword of the last constructor call
    kw_letters,       \* the letters keyword of the last constructor call
    board_status,     \* "none", "built", or the exception BoggleBoard() raised
    size,             \* BoggleBoard.size
    letters,          \* BoggleBoard.letter_list / BoggleBoard.letters
    board,            \* BoggleBoard.board, a list of rows
    game_status,      \* "none", "built", or the exception BoggleGame() raised
    scored_words,     \* BoggleGame.scored_words, a dict word -> score
    ctor,             \* the constructor last called: "BoggleBoard" or "BoggleGame"
    kw_board,         \* the board keyword of the last BoggleGame() call
    pc,               \* position of the game's current call
    caller,           \* who called check_word_on_board: "direct" or "play_word"
    word,             \* the word argument of the current call
    dict_answer,      \* what the dictionary lookup answered for the word
    letter_list,      \* letter_list of check_word_on_board, shared by the recursion
    start_positions,  \* start_positions of check_word_on_board
    start_idx,        \* index of the start position the for loop is at
    cur_pos,          \* (i_row, j_col) of the running recursive_string_search
    nn_data,          \* nn_data of the running recursive_string_search
    depth,            \* number of nested recursive_string_search frames
    status,           \* status of check_word_on_board
    play_result,      \* what play_word returned: None or {word: score}
    word_list,        \* the word_list argument of play_word_list
    dictionary,       \* the words the dictionary lookup knows during that call
    list_idx,         \* number of words the for loop of play_word_list has taken
    all_results,      \* all_results of play_word_list
    list_pc           \* position of the play_word_list call

vars == <<kw_size, kw_letters, board_status, size, letters, board, game_status,
          scored_words, ctor, kw_board, pc, caller, word, dict_answer, letter_list,
          start_positions, start_idx, cur_pos, nn_data, depth, status,
          play_result, word_list, dictionary, list_idx, all_results, list_pc>>

boardVars == <<kw_size, kw_letters, board_status, size, letters, board>>
ctorVars == <<boardVars, game_status, ctor, kw_board>>
searchVars == <<letter_list, start_positions, start_idx, cur_pos, nn_data,
                depth, status>>
listVars == <<word_list, dictionary, list_idx, all_results, list_pc>>

(***************************************************************************)
(* Bounds of the model.                                                    *)
(***************************************************************************)
MaxSize == 3          \* board sizes explored: -MaxSize .. MaxSize
MaxWordLen == 3       \* words explored: 0 .. MaxWordLen letters
MaxGameLetters == 4   \* longest letters string given to BoggleGame in SpecGame
MaxListLen == 2       \* longest word list given to play_word_list

(***************************************************************************)
(* Program constants.                                                      *)
(***************************************************************************)
DefaultSize == 5
max_score == 10

\* Keys of letter_frequency that the model draws letters from, and the one
\* the sparse boards are filled with.
Alpha == {"a", "b", "x"}
Filler == "x"
\* A character for which str.isalpha() is false.
NonAlpha == {"1"}

\* Python's None: like the empty tuple it is falsy.
None == <<>>

\* word_length_score.get(n, None): 0 stands for None.
word_length_score(n) ==
    CASE n = 2 -> 2
      [] n = 3 -> 5
      [] n = 4 -> 6
      [] n = 5 -> 8
      [] OTHER -> 0

(***************************************************************************)
(* Input families.                                                         *)
(***************************************************************************)
\* Strings of length n over chars in which at most two places differ from
\* the filler letter.
SparseStrings(n, chars) ==
    IF n = 0 THEN {<<>>}
    ELSE {[k \in 1..n |-> IF k = p THEN c ELSE IF k = q THEN d ELSE Filler] :
            p \in 1..n, q \in 1..n, c \in chars, d \in chars}

\* All strings of length n over chars.
RECURSIVE StringsOfLen(_, _)
StringsOfLen(n, chars) ==
    IF n = 0 THEN {<<>>}
    ELSE {Append(s, c) : s \in StringsOfLen(n - 1, chars), c \in chars}

\* Words searched on a board: like the boards, at most two letters of a
\* word differ from the filler letter.
Words == UNION {SparseStrings(n, Alpha) : n \in 0..MaxWordLen}
\* Words played in a game session: every word over the letters a and b.
GameWords == UNION {StringsOfLen(n, Alpha \ {Filler}) : n \in 0..MaxWordLen}

\* A size keyword: an int, or a value that is not an int (a float).
IntSize(n) == [isint |-> TRUE, v |-> n]
FloatSize(n) == [isint |-> FALSE, v |-> n]
Absent == [given |-> FALSE, v |-> <<>>]
Given(x) == [given |-> TRUE, v |-> x]

SizeInputs == {Absent} \cup {Given(IntSize(n)) : n \in (-MaxSize)..MaxSize}
                       \cup {Given(FloatSize(2))}
LetterInputs ==
    {Absent} \cup {Given(s) : s \in UNION {SparseStrings(n, Alpha \cup NonAlpha) :
                                            n \in 0..(MaxSize * MaxSize + 1)}}
\* The letters strings of the games whose sessions are explored.
GameLetterInputs ==
    {Given(s) : s \in UNION {SparseStrings(n, Alpha \cup NonAlpha) :
                               n \in 1..MaxGameLetters}}

(***************************************************************************)
(* BoggleBoard.                                                            *)
(***************************************************************************)
\* A validation that lets every character through.
isalpha_unchecked(s) == Len(s) > 0

\* str.isalpha(): at least one character and every character alphabetic.
isalpha(s) == Len(s) > 0 /\ \A k \in 1..Len(s) : s[k] \in Alpha

\* range(0, n, step) as the sequence of its values; step # 0.
RECURSIVE RangeFrom(_, _, _)
RangeFrom(i, n, step) ==
    IF (step > 0 /\ i < n) \/ (step < 0 /\ i > n)
    THEN <<i>> \o RangeFrom(i + step, n, step)
    ELSE <<>>

\* lst[i:j] for 0 <= i <= j.
Slice(lst, i, j) ==
    LET hi == IF j > Len(lst) THEN Len(lst) ELSE j
    IN  IF i >= hi THEN <<>> ELSE [k \in 1..(hi - i) |-> lst[i + k]]

\* The letter lists random.choice can produce for n cells.
RandomLetterLists(n) == SparseStrings(n, Alpha)

build_board(sz, ll) ==
    LET starts == RangeFrom(0, Len(ll), sz)
    IN  [r \in 1..Len(starts) |-> Slice(ll, starts[r], starts[r] + sz)]

\* build_neighbor_map with the last row and column taken for the edge's far side.
build_neighbor_map_short(sz, i_row, j_col) ==
    LET idx_edge == sz - 2
    IN  << IF j_col > 0 THEN <<i_row, j_col - 1>> ELSE None,
           IF j_col < idx_edge THEN <<i_row, j_col + 1>> ELSE None,
           IF i_row > 0 THEN <<i_row - 1, j_col>> ELSE None,
           IF i_row < idx_edge THEN <<i_row + 1, j_col>> ELSE None,
           IF i_row > 0 /\ j_col > 0 THEN <<i_row - 1, j_col - 1>> ELSE None,
           IF i_row > 0 /\ j_col < idx_edge THEN <<i_row - 1, j_col + 1>> ELSE None,
           IF i_row < idx_edge /\ j_col > 0 THEN <<i_row + 1, j_col - 1>> ELSE None,
           IF i_row < idx_edge /\ j_col < idx_edge THEN <<i_row + 1, j_col + 1>> ELSE None >>

\* The values of build_neighbor_map in the order of the dict's keys.
build_neighbor_map(sz, i_row, j_col) ==
    LET idx_edge == sz - 1
    IN  << IF j_col > 0 THEN <<i_row, j_col - 1>> ELSE None,
           IF j_col < idx_edge THEN <<i_row, j_col + 1>> ELSE None,
           IF i_row > 0 THEN <<i_row - 1, j_col>> ELSE None,
           IF i_row < idx_edge THEN <<i_row + 1, j_col>> ELSE None,
           IF i_row > 0 /\ j_col > 0 THEN <<i_row - 1, j_col - 1>> ELSE None,
           IF i_row > 0 /\ j_col < idx_edge THEN <<i_row - 1, j_col + 1>> ELSE None,
           IF i_row < idx_edge /\ j_col > 0 THEN <<i_row + 1, j_col - 1>> ELSE None,
           IF i_row < idx_edge /\ j_col < idx_edge THEN <<i_row + 1, j_col + 1>> ELSE None >>

get_letter_at_position(b, i_row, j_col) == b[i_row + 1][j_col + 1]

\* "if t_pos": the neighbour is not None.
IsPosition(t_pos) == t_pos # None

\* nn_data as the list of its (position, letter) items in insertion order.
\* The positions of one neighbour map are distinct, so each sets a new key.
NNItems(b, positions) ==
    [k \in DOMAIN positions |->
       [pos |-> positions[k],
        letter |-> get_letter_at_position(b, positions[k][1], positions[k][2])]]

nearest_neighbor_data(b, sz, i_row, j_col) ==
    NNItems(b, SelectSeq(build_neighbor_map(sz, i_row, j_col), IsPosition))

\* positions_for_letter: row-major list of the cells holding the letter.
RECURSIVE ScanRow(_, _, _, _)
ScanRow(row, i, j, letter) ==
    IF j > Len(row) THEN <<>>
    ELSE (IF row[j] = letter THEN <<(<<i - 1, j - 1>>)>> ELSE <<>>)
         \o ScanRow(row, i, j + 1, letter)

RECURSIVE ScanBoard(_, _, _)
ScanBoard(b, i, letter) ==
    IF i > Len(b) THEN <<>>
    ELSE ScanRow(b[i], i, 1, letter) \o ScanBoard(b, i + 1, letter)

positions_for_letter(b, letter) == ScanBoard(b, 1, letter)

\* The outcome of BoggleBoard(**kwargs): the exception raised, or the fields
\* of the board built.  rnd is the list random.choice would draw.
BoardOutcome(ksize, kletters, rnd) ==
    LET sz == IF ksize.given THEN ksize.v ELSE IntSize(DefaultSize)
        failed(e) == [status |-> e, size |-> 0, letters |-> <<>>, board |-> <<>>]
    IN  IF ~sz.isint THEN failed("InitError")
        ELSE IF kletters.given /\ ~isalpha(kletters.v) THEN failed("InitError")
        ELSE IF kletters.given /\ Len(kletters.v) # sz.v * sz.v THEN failed("InitError")
        ELSE LET ll == IF kletters.given /\ Len(kletters.v) > 0
                       THEN kletters.v ELSE rnd
             IN  IF sz.v = 0 THEN failed("ValueError")
                 ELSE [status |-> "built", size |-> sz.v, letters |-> ll,
                       board |-> build_board(sz.v, ll)]

\* The size the constructor settles on, for drawing the random letters.
SizeOf(ksize) ==
    IF ~ksize.given THEN DefaultSize
    ELSE IF ksize.v.isint THEN ksize.v.v ELSE 0

(***************************************************************************)
(* BoggleGame.                                                             *)
(***************************************************************************)
IsPerfectSquare(n) == \E k \in 0..n : k * k = n
\* int(N_letters ** (1/2.0)) for a perfect square N_letters.
IntSqrt(n) == CHOOSE k \in 0..n : k * k = n

\* is_playable_word that lets every word through.
is_playable_word_any(w, in_dict) == TRUE

\* is_playable_word: in_dict is what __is_in_dictionary answers.
is_playable_word(w, in_dict) ==
    LET status1 == TRUE
        status2 == IF Len(w) < 2 THEN FALSE ELSE status1
        status3 == in_dict
    IN  status3

\* A pop that leaves the list as it was.
Pop0_keep(lst) == lst

\* letter_list.pop(0): the list that remains.
Pop0(lst) == Tail(lst)

\* The first item of nn_data whose letter is the wanted one (0 if none).
FirstMatch(nn, letter) ==
    LET ms == {k \in 1..Len(nn) : nn[k].letter = letter}
    IN  IF ms = {} THEN 0 ELSE CHOOSE k \in ms : \A j \in ms : k <= j

\* The score play_word records for a word.
WordScore(w) ==
    LET score == word_length_score(Len(w))
    IN  IF score = 0 THEN max_score ELSE score

EmptyDict == [w \in {} |-> 0]
\* scored_words[w] = score
DictSet(d, w, score) == [x \in DOMAIN d \cup {w} |-> IF x = w THEN score ELSE d[x]]
current_score(d) ==
    LET RECURSIVE Sum(_)
        Sum(S) == IF S = {} THEN 0
                  ELSE LET x == CHOOSE y \in S : TRUE IN d[x] + Sum(S \ {x})
    IN  Sum(DOMAIN d)

(***************************************************************************)
(* The state machine.                                                      *)
(***************************************************************************)
IdleSearch ==
    /\ letter_list = <<>>
    /\ start_positions = <<>>
    /\ start_idx = 0
    /\ cur_pos = None
    /\ nn_data = <<>>
    /\ depth = 0
    /\ status = FALSE

IdleCall ==
    /\ pc = "idle"
    /\ caller = "none"
    /\ word = <<>>
    /\ dict_answer = FALSE
    /\ play_result = None
    /\ IdleSearch

\* No call of play_word_list is running.
IdleList ==
    /\ word_list = <<>>
    /\ dictionary = {}
    /\ list_idx = 0
    /\ all_results = EmptyDict
    /\ list_pc = "none"

\* Nothing constructed yet.
Init ==
    /\ kw_size = Absent
    /\ kw_letters = Absent
    /\ kw_board = "absent"
    /\ ctor = "none"
    /\ board_status = "none"
    /\ size = 0
    /\ letters = <<>>
    /\ board = <<>>
    /\ game_status = "none"
    /\ scored_words = EmptyDict
    /\ IdleCall
    /\ IdleList

SetBoard(out) ==
    /\ board_status' = out.status
    /\ size' = out.size
    /\ letters' = out.letters
    /\ board' = out.board

\* BoggleBoard(**kwargs)
BoardInit(ksize, kletters) ==
    /\ board_status = "none"
    /\ game_status = "none"
    /\ \E rnd \in (IF kletters.given THEN {<<>>}
                   ELSE RandomLetterLists(SizeOf(ksize) * SizeOf(ksize))) :
          SetBoard(BoardOutcome(ksize, kletters, rnd))
    /\ kw_size' = ksize
    /\ kw_letters' = kletters
    /\ ctor' = "BoggleBoard"
    /\ UNCHANGED <<game_status, kw_board, scored_words, pc, caller, word,
                   dict_answer, play_result, searchVars, listVars>>

\* BoggleGame(board=...), with a BoggleBoard or with some other object.
GameInitBoard(kboard, kletters, key_ok) ==
    /\ kboard \in {"board", "other"}
    /\ board_status = "built"
    /\ game_status = "none"
    /\ ctor' = "BoggleGame"
    /\ kw_board' = kboard
    /\ kw_letters' = kletters
    /\ game_status' = IF kboard = "other" \/ ~key_ok THEN "InitError" ELSE "built"
    /\ scored_words' = EmptyDict
    /\ UNCHANGED <<kw_size, board_status, size, letters, board,
                   pc, caller, word, dict_answer, play_result, searchVars, listVars>>

\* BoggleGame(letters=...) and BoggleGame(): the game builds its own board.
GameInitOwn(kletters, key_ok) ==
    /\ board_status = "none"
    /\ game_status = "none"
    /\ ctor' = "BoggleGame"
    /\ kw_board' = "absent"
    /\ kw_letters' = kletters
    /\ kw_size' = Absent
    /\ IF kletters.given /\ Len(kletters.v) > 0
       THEN IF ~IsPerfectSquare(Len(kletters.v))
            THEN /\ game_status' = "InitError"
                 /\ UNCHANGED <<board_status, size, letters, board>>
            ELSE LET out == BoardOutcome(Given(IntSize(IntSqrt(Len(kletters.v)))),
                                         kletters, <<>>)
                 IN  /\ SetBoard(out)
                     /\ game_status' = IF out.status # "built" THEN out.status
                                       ELSE IF key_ok THEN "built" ELSE "InitError"
       ELSE \E rnd \in RandomLetterLists(DefaultSize * DefaultSize) :
              LET out == BoardOutcome(Absent, Absent, rnd)
              IN  /\ SetBoard(out)
                  /\ game_status' = IF key_ok THEN "built" ELSE "InitError"
    /\ scored_words' = EmptyDict
    /\ UNCHANGED <<pc, caller, word, dict_answer, play_result, searchVars, listVars>>

\* check_word_on_board up to its for loop.
SearchBegin(w, who) ==
    /\ caller' = who
    /\ word' = w
    /\ letter_list' = w
    /\ status' = FALSE
    /\ start_idx' = 0
    /\ cur_pos' = None
    /\ nn_data' = <<>>
    /\ depth' = 0
    /\ IF Len(w) = 0
       THEN /\ pc' = "raised"
            /\ start_positions' = <<>>
       ELSE /\ pc' = "loop"
            /\ start_positions' = positions_for_letter(board, w[1])

\* game.check_word_on_board(word), called on the game directly.
CheckWordOnBoard(w) ==
    /\ game_status = "built"
    /\ pc = "idle"
    /\ SearchBegin(w, "direct")
    /\ dict_answer' = FALSE
    /\ play_result' = None
    /\ UNCHANGED <<ctorVars, scored_words, listVars>>

\* The for loop of check_word_on_board: the next start position, or the return.
LoopStep ==
    /\ pc = "loop"
    /\ IF start_idx < Len(start_positions)
       THEN /\ start_idx' = start_idx + 1
            /\ cur_pos' = start_positions[start_idx + 1]
            /\ depth' = 1
            /\ pc' = "rec"
       ELSE /\ pc' = "returned"
            /\ UNCHANGED <<start_idx, cur_pos, depth>>
    /\ UNCHANGED <<ctorVars, scored_words, caller, word, dict_answer,
                   play_result, letter_list, start_positions, nn_data, status,
                   listVars>>

\* What one call of recursive_string_search does with letter_list lst at
\* position pos, whose nn_data is nn: it raises, returns False, returns
\* True, or calls itself at the first neighbour holding the next letter.
recursive_string_search(lst, pos, nn) ==
    LET rest == Pop0(lst)
        m == FirstMatch(nn, rest[1])
    IN  IF Len(rest) = 0
        THEN [kind |-> "IndexError", rest |-> rest, next |-> pos]
        ELSE IF m = 0
        THEN [kind |-> "False", rest |-> rest, next |-> pos]
        ELSE IF Len(rest) = 1
        THEN [kind |-> "True", rest |-> rest, next |-> pos]
        ELSE [kind |-> "recurse", rest |-> rest, next |-> nn[m].pos]

\* One call of recursive_string_search at cur_pos.  A return passes through
\* every frame to the for loop of check_word_on_board, which leaves on True.
RecStep ==
    /\ pc = "rec"
    /\ \E nn \in {nearest_neighbor_data(board, size, cur_pos[1], cur_pos[2])} :
       \E out \in {recursive_string_search(letter_list, cur_pos, nn)} :
          /\ letter_list' = out.rest
          /\ cur_pos' = out.next
          /\ nn_data' = (IF out.kind = "IndexError" THEN nn_data ELSE nn)
          /\ status' = (IF out.kind = "True" THEN TRUE
                        ELSE IF out.kind = "False" THEN FALSE ELSE status)
          /\ depth' = (IF out.kind = "recurse" THEN depth + 1
                       ELSE IF out.kind = "IndexError" THEN depth ELSE 0)
          /\ pc' = (CASE out.kind = "IndexError" -> "raised"
                      [] out.kind = "False" -> "loop"
                      [] out.kind = "True" -> "returned"
                      [] out.kind = "recurse" -> "rec")
    /\ UNCHANGED <<ctorVars, scored_words, caller, word, dict_answer,
                   play_result, start_positions, start_idx, listVars>>

\* play_word up to its call of check_word_on_board.
PlayWord(w, in_dict) ==
    /\ game_status = "built"
    /\ pc = "idle"
    /\ dict_answer' = in_dict
    /\ IF ~is_playable_word(w, in_dict)
       THEN /\ play_result' = None
            /\ word' = w
            /\ caller' = "play_word"
            /\ UNCHANGED <<pc, searchVars>>
       ELSE /\ SearchBegin(w, "play_word")
            /\ play_result' = None
    /\ UNCHANGED <<ctorVars, scored_words>>

\* play_word after check_word_on_board returned.
PlayWordReturn ==
    /\ pc = "returned"
    /\ caller = "play_word"
    /\ pc' = "idle"
    /\ IF status
       THEN /\ scored_words' = DictSet(scored_words, word, WordScore(word))
            /\ play_result' = <<word, WordScore(word)>>
       ELSE /\ play_result' = None
            /\ UNCHANGED scored_words
    /\ letter_list' = <<>>
    /\ start_positions' = <<>>
    /\ start_idx' = 0
    /\ cur_pos' = None
    /\ nn_data' = <<>>
    /\ depth' = 0
    /\ status' = FALSE
    /\ UNCHANGED <<ctorVars, caller, word, dict_answer, listVars>>

\* play_word_list up to its for loop.  dct is the set of words the
\* dictionary lookup answers True for while the call runs.
PlayWordList(wl, dct) ==
    /\ game_status = "built"
    /\ pc = "idle"
    /\ list_pc = "none"
    /\ word_list' = wl
    /\ dictionary' = dct
    /\ list_idx' = 0
    /\ all_results' = EmptyDict
    /\ list_pc' = "for"
    /\ UNCHANGED <<ctorVars, scored_words, pc, caller, word, dict_answer,
                   play_result, searchVars>>

\* The for loop of play_word_list: play_word is called on the next word, or
\* all_results is returned.
ListFor ==
    /\ list_pc = "for"
    /\ pc = "idle"
    /\ IF list_idx < Len(word_list)
       THEN /\ PlayWord(word_list[list_idx + 1],
                        word_list[list_idx + 1] \in dictionary)
            /\ list_idx' = list_idx + 1
            /\ list_pc' = "call"
            /\ UNCHANGED <<word_list, dictionary, all_results>>
       ELSE /\ list_pc' = "returned"
            /\ UNCHANGED <<ctorVars, scored_words, pc, caller, word, dict_answer,
                           play_result, searchVars, word_list, dictionary,
                           list_idx, all_results>>

\* all_results.update(d_result): dict.update(None) raises TypeError.
ListUpdate ==
    /\ list_pc = "call"
    /\ pc = "idle"
    /\ IF play_result = None
       THEN /\ list_pc' = "TypeError"
            /\ UNCHANGED all_results
       ELSE /\ all_results' = DictSet(all_results, play_result[1], play_result[2])
            /\ list_pc' = "for"
    /\ UNCHANGED <<ctorVars, scored_words, pc, caller, word, dict_answer,
                   play_result, searchVars, word_list, dictionary, list_idx>>

\* An exception of check_word_on_board passes through play_word and
\* play_word_list, which catch nothing.
ListRaise ==
    /\ list_pc = "call"
    /\ pc = "raised"
    /\ list_pc' = "IndexError"
    /\ UNCHANGED <<ctorVars, scored_words, pc, caller, word, dict_answer,
                   play_result, searchVars, word_list, dictionary, list_idx,
                   all_results>>

SearchNext == LoopStep \/ RecStep

\* The constructor calls, with their arguments drawn from the input families.
Unbuilt == board_status = "none" /\ game_status = "none"

BoardInitCall ==
    /\ Unbuilt
    /\ \E ksize \in SizeInputs, kletters \in LetterInputs : BoardInit(ksize, kletters)

GameInitBoardCall ==
    /\ board_status = "built" /\ game_status = "none"
    /\ \E kboard \in {"board", "other"}, kletters \in {Absent, Given(<<"a", "b", "x">>)},
          key_ok \in BOOLEAN : GameInitBoard(kboard, kletters, key_ok)

GameInitOwnCall(inputs) ==
    /\ Unbuilt
    /\ \E kletters \in inputs, key_ok \in BOOLEAN : GameInitOwn(kletters, key_ok)

\* Construction of boards and games.
NextBoard ==
    \/ BoardInitCall
    \/ GameInitBoardCall
    \/ GameInitOwnCall(LetterInputs)

SpecBoard == Init /\ [][NextBoard]_vars

PlayWordCall ==
    /\ game_status = "built"
    /\ pc = "idle"
    /\ list_pc = "none"
    /\ \E w \in GameWords, in_dict \in BOOLEAN : PlayWord(w, in_dict)
    /\ UNCHANGED listVars

CheckWordOnBoardCall ==
    /\ game_status = "built"
    /\ pc = "idle"
    /\ list_pc = "none"
    /\ \E w \in Words : CheckWordOnBoard(w)

\* A game session: a game built from a letters string, then words played.
NextGame ==
    \/ GameInitOwnCall(GameLetterInputs)
    \/ PlayWordCall
    \/ LoopStep
    \/ RecStep
    \/ PlayWordReturn

SpecGame == Init /\ [][NextGame]_vars

\* The word lists given to play_word_list.
RECURSIVE ListsOfLen(_, _)
ListsOfLen(n, ws) ==
    IF n = 0 THEN {<<>>}
    ELSE {Append(l, w) : l \in ListsOfLen(n - 1, ws), w \in ws}

WordLists == UNION {ListsOfLen(n, GameWords) : n \in 0..MaxListLen}
ListWords(wl) == {wl[k] : k \in 1..Len(wl)}

PlayWordListCall ==
    /\ game_status = "built"
    /\ pc = "idle"
    /\ list_pc = "none"
    /\ \E wl \in WordLists : \E dct \in SUBSET ListWords(wl) : PlayWordList(wl, dct)

\* A game built from a letters string, then one call of play_word_list.
NextList ==
    \/ GameInitOwnCall(GameLetterInputs)
    \/ PlayWordListCall
    \/ ListFor
    \/ LoopStep
    \/ RecStep
    \/ PlayWordReturn
    \/ ListUpdate
    \/ ListRaise

SpecList == Init /\ [][NextList]_vars

\* The states BoggleGame(letters=s) leaves, for the valid letters strings s
\* of the boards of size 1..MaxSize.
InitSearch ==
    \E n \in 1..MaxSize : \E s \in SparseStrings(n * n, Alpha) :
       LET out == BoardOutcome(Given(IntSize(n)), Given(s), <<>>)
       IN  /\ kw_size = Absent
           /\ kw_letters = Given(s)
           /\ kw_board = "absent"
           /\ ctor = "BoggleGame"
           /\ board_status = out.status
           /\ size = out.size
           /\ letters = out.letters
           /\ board = out.board
           /\ game_status = "built"
           /\ scored_words = EmptyDict
           /\ IdleCall
           /\ IdleList

\* The path search on its own: check_word_on_board called on a built game.
NextSearch ==
    \/ CheckWordOnBoardCall
    \/ LoopStep
    \/ RecStep

SpecSearch == InitSearch /\ [][NextSearch]_vars

\* A call of check_word_on_board is not suspended: the interpreter keeps
\* running the synchronous call until it returns or raises.
SpecSearchFair == SpecSearch /\ WF_vars(SearchNext)

\* The whole program: construction, direct searches and game sessions.
Next ==
    \/ NextBoard
    \/ NextGame
    \/ NextSearch
    \/ NextList

Spec == Init /\ [][Next]_vars

(***************************************************************************)
(* What the claims speak of: positions, adjacency, traces.                 *)
(***************************************************************************)
Cells(sz) == (0..(sz - 1)) \X (0..(sz - 1))
Dist(x, y) == IF x >= y THEN x - y ELSE y - x
Adjacent(p, q) == p # q /\ Dist(p[1], q[1]) <= 1 /\ Dist(p[2], q[2]) <= 1
LetterAt(b, p) == b[p[1] + 1][p[2] + 1]

\* The cells at which a trace of the first k letters of w can end: a trace
\* is a sequence of in-bounds cells, consecutive ones adjacent, spelling w.
RECURSIVE TraceEnds(_, _, _, _)
TraceEnds(b, sz, w, k) ==
    IF k = 1 THEN {p \in Cells(sz) : LetterAt(b, p) = w[1]}
    ELSE LET prev == TraceEnds(b, sz, w, k - 1)
         IN  {q \in Cells(sz) : /\ LetterAt(b, q) = w[k]
                                /\ \E p \in prev : Adjacent(p, q)}

Traceable(b, sz, w) == Len(w) >= 1 /\ TraceEnds(b, sz, w, Len(w)) # {}

\* The traces of the first k letters of w that use no cell twice.
RECURSIVE SimpleTraces(_, _, _, _)
SimpleTraces(b, sz, w, k) ==
    IF k = 1 THEN {<<p>> : p \in {c \in Cells(sz) : LetterAt(b, c) = w[1]}}
    ELSE LET prev == SimpleTraces(b, sz, w, k - 1)
         IN  UNION {{Append(t, q) : q \in {c \in Cells(sz) :
                                             /\ LetterAt(b, c) = w[k]
                                             /\ Adjacent(t[k - 1], c)
                                             /\ \A n \in 1..(k - 1) : t[n] # c}} :
                    t \in prev}

SimplyTraceable(b, sz, w) == Len(w) >= 1 /\ SimpleTraces(b, sz, w, Len(w)) # {}

Searching == pc \in {"loop", "rec"}
Returned == pc = "returned"
Raised == pc = "raised"

(***************************************************************************)
(* The path search.                                                        *)
(***************************************************************************)
\* C1: soundness of the path search: for a word of two or more letters, if
\* check_word_on_board returns True then the board holds a trace of the
\* word: in-bounds cells, each adjacent to the next, spelling the word.
C1_SearchSound ==
    (Returned /\ Len(word) >= 2 /\ status) => Traceable(board, size, word)

\* C2: completeness of the path search: for a word of two or more letters
\* that has a trace on the board from some occurrence of its first letter,
\* check_word_on_board ends by returning True.
C2_SearchComplete ==
    ((Returned \/ Raised) /\ Len(word) >= 2 /\ Traceable(board, size, word))
        => (Returned /\ status)

\* C3: the path search never fails with an exception: for a word of one or
\* more letters check_word_on_board returns a boolean.
C3_SearchNeverRaises ==
    Len(word) >= 1 => ~Raised

\* C9: standard Boggle rules: check_word_on_board returns True only if the
\* word has a trace on the board that uses no cell more than once.
C9_NoCellReuse ==
    (Returned /\ status) => SimplyTraceable(board, size, word)

\* C10: termination of the path search: for a word of two or more letters a
\* call of check_word_on_board ends (it returns or raises); the nesting of
\* recursive_string_search never exceeds len(word) - 1 frames and at most
\* size * size start positions are attempted.
C10_SearchTerminates ==
    /\ [](Len(word) >= 2 => (depth <= Len(word) - 1 /\ start_idx <= size * size))
    /\ ((Searching /\ Len(word) >= 2) ~> (Returned \/ Raised))

\* A search for a word of three or more letters has nested its recursion
\* len(word) - 1 frames deep.
C10_Witness ==
    pc = "rec" /\ Len(word) >= 3 /\ depth = Len(word) - 1 /\ start_idx >= 1

(***************************************************************************)
(* The neighbour geometry.                                                 *)
(***************************************************************************)
OnEdge(sz, x) == x = 0 \/ x = sz - 1
ExpectedNeighbours(sz, p) ==
    IF OnEdge(sz, p[1]) /\ OnEdge(sz, p[2]) THEN 3
    ELSE IF OnEdge(sz, p[1]) \/ OnEdge(sz, p[2]) THEN 5
    ELSE 8

\* C6: neighbour geometry: on a board of size N >= 2, nearest_neighbor_data
\* of an in-bounds position holds exactly 3 positions at a corner, 5 on an
\* edge and 8 elsewhere; each is in-bounds, differs from the position, is
\* at row and column distance at most 1 and is mapped to the letter there.
C6_NeighbourGeometry ==
    (board_status = "built" /\ size >= 2) =>
        \A p \in Cells(size) :
            LET nn == nearest_neighbor_data(board, size, p[1], p[2])
            IN  /\ Len(nn) = ExpectedNeighbours(size, p)
                /\ Cardinality({nn[k].pos : k \in 1..Len(nn)}) = Len(nn)
                /\ \A k \in 1..Len(nn) :
                      /\ nn[k].pos \in Cells(size)
                      /\ Adjacent(p, nn[k].pos)
                      /\ nn[k].letter = board[nn[k].pos[1] + 1][nn[k].pos[2] + 1]

\* The search has fetched the neighbours of an interior cell.
C6_Witness ==
    size >= 3 /\ Len(nn_data) = 8

(***************************************************************************)
(* Construction.                                                           *)
(***************************************************************************)
C4_SizeGiven == IF kw_size.given THEN kw_size.v.v ELSE DefaultSize
C4_BadBoardArgs ==
    \/ kw_size.given /\ ~kw_size.v.isint
    \/ \E k \in 1..Len(kw_letters.v) : kw_letters.v[k] \in NonAlpha
    \/ Len(kw_letters.v) # C4_SizeGiven * C4_SizeGiven

\* C4: construction validation: BoggleBoard(size, letters) with letters
\* supplied raises InitError whenever len(letters) # size * size, or a
\* character of letters is not alphabetic, or size is not an integer, and
\* then no board is built; BoggleGame(letters=...) raises InitError when
\* len(letters) is not a perfect square.
C4_ConstructionValidation ==
    /\ (ctor = "BoggleBoard" /\ kw_letters.given /\ C4_BadBoardArgs)
          => (board_status = "InitError" /\ board = <<>> /\ letters = <<>>)
    /\ (/\ ctor = "BoggleGame" /\ kw_board = "absent" /\ kw_letters.given
        /\ \A k \in 0..Len(kw_letters.v) : k * k # Len(kw_letters.v))
          => (game_status = "InitError" /\ board_status = "none" /\ board = <<>>)

\* BoggleBoard(size=2, letters=...) was refused for a character that is not
\* alphabetic in a letters string of the right length.
C4_Witness ==
    /\ ctor = "BoggleBoard"
    /\ board_status = "InitError"
    /\ kw_size = Given(IntSize(2))
    /\ kw_letters.given
    /\ Len(kw_letters.v) = 4
    /\ \E k \in 1..4 : kw_letters.v[k] \in NonAlpha

\* C5: grid shape: every board that construction produces has exactly size
\* rows of exactly size columns, size * size cells in all, each holding one
\* alphabetic letter, cell (i, j) holding letters[i * size + j] when letters
\* were supplied.
C5_GridShape ==
    board_status = "built" =>
        /\ Len(board) = size
        /\ \A i \in 1..Len(board) : Len(board[i]) = size
        /\ Len(letters) = size * size
        /\ \A i \in 1..Len(board) : \A j \in 1..Len(board[i]) :
              /\ board[i][j] \in Alpha
              /\ (kw_board = "absent" /\ kw_letters.given /\ Len(kw_letters.v) > 0)
                    => board[i][j] = kw_letters.v[(i - 1) * size + (j - 1) + 1]

(***************************************************************************)
(* The game session.                                                       *)
(***************************************************************************)
C7_Step ==
    /\ (game_status # "built" /\ game_status' = "built")
          => scored_words' = EmptyDict
    /\ game_status = "built" =>
          /\ \A w \in DOMAIN scored_words :
                w \in DOMAIN scored_words' /\ scored_words'[w] = scored_words[w]
          /\ scored_words' # scored_words =>
                /\ pc = "returned" /\ caller = "play_word"
                /\ dict_answer
                /\ status
                /\ DOMAIN scored_words' = DOMAIN scored_words \cup {word}
          /\ (pc = "returned" /\ caller = "play_word" /\ word \in DOMAIN scored_words) =>
                /\ scored_words' = scored_words
                /\ current_score(scored_words') = current_score(scored_words)

\* C7: scored_words is empty when a game is created; across play_word calls
\* it never loses an entry, gains an entry only in a call whose word passed
\* the dictionary check and the board check, and playing a recorded word
\* again leaves its recorded score and current_score() unchanged.
C7_ScoredWords == [][C7_Step]_vars

\* A second recorded word is there and a recorded word was played again and
\* found on the board.
C7_Witness ==
    /\ pc = "returned" /\ caller = "play_word" /\ status
    /\ word \in DOMAIN scored_words
    /\ Cardinality(DOMAIN scored_words) >= 2

\* C8: minimum word length: for a word of fewer than two letters, whatever
\* the dictionary answers, play_word returns None without running the board
\* search on it and without recording it.
C8_MinWordLength ==
    (caller = "play_word" /\ Len(word) < 2)
        => (pc = "idle" /\ play_result = None /\ word \notin DOMAIN scored_words)

(***************************************************************************)
(* Word lists.                                                             *)
(***************************************************************************)
\* C11: play_word_list copes with words that are not playable: the call
\* never ends with the TypeError of all_results.update, and when it returns
\* every word of the list has been played, all_results holds exactly the
\* words of the list that play_word accepted, each a dictionary word with
\* its score, and scored_words holds them with the same scores.  (The
\* IndexError of the path search is left aside here.)
C11_PlayWordList ==
    /\ list_pc # "TypeError"
    /\ list_pc = "returned" =>
          /\ list_idx = Len(word_list)
          /\ DOMAIN all_results = DOMAIN scored_words
          /\ \A w \in DOMAIN all_results :
                /\ w \in ListWords(word_list) \cap dictionary
                /\ all_results[w] = WordScore(w)
                /\ scored_words[w] = all_results[w]

====
